---- MODULE Spec2Model ----
(***************************************************************************)
(* A model of the agent framework's core: Agent.run with its one round of  *)
(* tool dispatch, the two-tier MemoryManager (bounded short-term deque and *)
(* the durable per-conversation log) and the request-keyed cache.          *)
(*                                                                         *)
(* Text is modelled as a sequence of pieces, so that an f-string such as   *)
(* f"prefix: {e}" is the two-piece sequence <<prefix, e>> and "" is <<>>.  *)
(* Python's None is the value None below.                                  *)
(***************************************************************************)
EXTENDS Integers, Sequences, FiniteSets, TLC

VARIABLES
    capacity,          \* ShortTermMemory.capacity (Agent's memory_capacity)
    longTermEnabled,   \* MemoryManager.long_term_enabled
    enableCache,       \* Agent.enable_cache
    modelId,           \* Agent.model
    tools,             \* names of the Tools in Agent.tools
    shortTerm,         \* ShortTermMemory.messages, oldest first
    sinceSeed,         \* history: memory.add calls since the system message was last added
    conversationId,    \* Agent.conversation_id = MemoryManager.current_conversation_id
    ltmMessages,       \* table messages: conversation id -> rows in id order
    ltmConversations,  \* table conversations: the ids that have an index row
    cache,             \* cache directory: request -> entry file content
    now,               \* time.time(), in days
    pc,                \* where the caller / the current run stands
    callNo,            \* which _call_model of the current run comes next (1 or 2)
    response,          \* the Message _call_model returned last in this run
    idx,               \* position of the for loop of _handle_tool_calls
    returned,          \* the text run returned (empty while it has not)
    runs,              \* number of run calls started
    requestsLeft,      \* tool-call requests the backend may still emit (a bound)
    minted,            \* number of conversation ids (uuid4) the Agent has generated
    ops,               \* number of calls of the operations on conversations
    storeOk,           \* whether statements on the sqlite database succeed at present
    tx,                \* the open sqlite connection's uncommitted view of the two tables
    file,              \* the entry file of one cache key that several processes share
    procs,             \* those processes: what each is doing on the file, and where
    added,             \* history: the Messages this run passed to memory.add, in order
    asked,             \* history: the input_text of this run
    outcomes,          \* history: how each _call_model of this run was answered, in order
    invoked            \* history: the tool-call ids whose tool function was invoked in this run

vars == <<capacity, longTermEnabled, enableCache, modelId, tools, shortTerm, sinceSeed,
          conversationId, ltmMessages, ltmConversations, cache, now, pc, callNo,
          response, idx, returned, runs, requestsLeft, minted, ops, storeOk, tx,
          file, procs, added, asked, outcomes, invoked>>

----------------------------------------------------------------------------
(* Bounds of the model *)

\* largest short-term capacity an Agent is constructed with
MaxCapacity == 5
\* most tool-call requests in one backend response
MaxCalls == 2
\* most tool-call requests the backend emits in one behaviour
MaxRequests == 2
\* most calls of run in one behaviour of an Agent with tools
MaxRuns == 1
\* most calls of run in one behaviour of an Agent without tools
MaxChatRuns == 3
\* most messages added in the short-term memory specification
MaxAdds == 4
\* most calls on an Agent that changes conversations (run and the operations
\* on conversations together) in one behaviour
MaxConvCalls == 4
\* largest short-term capacity of an Agent that changes conversations
MaxConvCapacity == 3
\* the last day of the cache specification
MaxNow == 9
\* SpecFail: number of run calls
MaxFailRuns == 2
\* SpecCached: number of run calls
MaxCachedRuns == 2
\* SpecRace: writes a set needs for its longest entry, and sets per writer
MaxChunks == 2
MaxSets == 1
\* SpecLTM: number of calls on the LongTermMemory
MaxStoreCalls == 3

----------------------------------------------------------------------------
(* Values *)

None == "None"

Min(a, b) == IF a < b THEN a ELSE b

\* the members of the enumeration Role of models/message.py
RoleSystem == "Role.SYSTEM"
RoleUser == "Role.USER"
RoleAssistant == "Role.ASSISTANT"
RoleTool == "Role.TOOL"
RoleFunction == "Role.FUNCTION"
Roles == {RoleSystem, RoleUser, RoleAssistant, RoleTool, RoleFunction}

\* role.value of a member; a str has no attribute value (AttributeError), so
\* this is only taken of members
RoleValue(role) ==
    CASE role = RoleSystem -> "system"
      [] role = RoleUser -> "user"
      [] role = RoleAssistant -> "assistant"
      [] role = RoleTool -> "tool"
      [] role = RoleFunction -> "function"

\* Role(value): the member with that value (ValueError for any other value)
RoleOf(value) ==
    CASE value = "system" -> RoleSystem
      [] value = "user" -> RoleUser
      [] value = "assistant" -> RoleAssistant
      [] value = "tool" -> RoleTool
      [] value = "function" -> RoleFunction

\* Message.__init__: tool_calls or [], name None unless given
Message(role, content, tool_calls, tool_call_id) ==
    [role |-> role, content |-> content, name |-> None,
     tool_calls |-> tool_calls, tool_call_id |-> tool_call_id]

MessageSystem(content) == Message(RoleSystem, content, <<>>, None)
MessageUser(content) == Message(RoleUser, content, <<>>, None)
MessageAssistant(content) == Message(RoleAssistant, content, <<>>, None)
MessageTool(content, tool_call_id) == Message(RoleTool, content, <<>>, tool_call_id)

\* the system prompt the Agent was constructed with
SystemPrompt == <<"you are an assistant">>

\* user inputs
Texts == {<<"hi">>}

\* text contents the backend answers with
Contents == {<<"hello">>, <<"done">>}

\* error texts of a failing backend call
BackendErrors == {"connection error"}

----------------------------------------------------------------------------
(* Message <-> dictionary (models/message.py) *)

EmptyDict == [k \in {} |-> k]

\* Python truthiness of an optional string: None and "" are falsy
Truthy(x) == x # None /\ x # ""

\* dict.get(key, default)
DictGet(d, key, default) == IF key \in DOMAIN d THEN d[key] ELSE default

\* Faulty variant of ToDict: tool_calls and tool_call_id are left out
ToDictBare(m) ==
    [role |-> RoleValue(m.role), content |-> m.content]
    @@ (IF Truthy(m.name) THEN [name |-> m.name] ELSE EmptyDict)

\* Message.to_dict: role and content always, the others only when truthy
ToDict(m) ==
    [role |-> RoleValue(m.role), content |-> m.content]
    @@ (IF Truthy(m.name) THEN [name |-> m.name] ELSE EmptyDict)
    @@ (IF m.tool_calls # <<>> THEN [tool_calls |-> m.tool_calls] ELSE EmptyDict)
    @@ (IF Truthy(m.tool_call_id) THEN [tool_call_id |-> m.tool_call_id] ELSE EmptyDict)

\* Message.from_dict: absent keys take the defaults of data.get
FromDict(d) ==
    [role |-> RoleOf(DictGet(d, "role", "user")),
     content |-> DictGet(d, "content", <<>>),
     name |-> DictGet(d, "name", None),
     tool_calls |-> DictGet(d, "tool_calls", <<>>),
     tool_call_id |-> DictGet(d, "tool_call_id", None)]

----------------------------------------------------------------------------
(* Tools and tool-call requests (models/tool.py, the backend boundary) *)

\* the tools an Agent may be given: echo(x) returns x, boom(x) raises
ToolSets == {{}, {"echo"}, {"echo", "boom"}}

\* argument payloads the backend sends: a JSON object, a JSON value that is
\* no object, and text that is no JSON
PayloadObject == "{\"x\": \"42\"}"
PayloadList == "[42]"
PayloadBroken == "{\"x\": "

\* json.loads of a payload: raises on text that is no JSON, otherwise the
\* decoded value (a mapping with key x, or a value that is no mapping)
JsonLoads(payload) ==
    CASE payload = PayloadObject -> [raises |-> FALSE, mapping |-> TRUE, x |-> <<"42">>]
      [] payload = PayloadList -> [raises |-> FALSE, mapping |-> FALSE, x |-> <<>>]
      [] OTHER -> [raises |-> TRUE, mapping |-> FALSE, x |-> <<>>]

\* the id the backend gives its k-th tool-call request
CallId(k) == "call_" \o ToString(k)

\* what the backend asks for: name and payload of one tool-call request
RequestShapes ==
    {[name |-> "echo", arguments |-> PayloadObject],
     [name |-> "echo", arguments |-> PayloadList],
     [name |-> "echo", arguments |-> PayloadBroken],
     [name |-> "boom", arguments |-> PayloadObject],
     [name |-> "nope", arguments |-> PayloadObject]}

\* the tool_calls of a response of the backend: n requests, numbered from
\* `first`. Each is an object of the client library, read by attribute
\* (tool_call.id, tool_call.function.name, .arguments); it is no dict
ToolCalls(shapes, first) ==
    [i \in 1..Len(shapes) |->
        [id |-> CallId(first + i - 1), name |-> shapes[i].name,
         arguments |-> shapes[i].arguments, form |-> "object"]]

\* text of the exception a tool function raises
ToolError == "kaboom"
\* text of the TypeError of tool(**tool_args) when tool_args is no mapping
TypeErrorText == "argument after ** must be a mapping"
\* "工具调用失败: " (tool call failed), prefix of both failure texts
ToolFailedPrefix == "tool call failed: "
\* "找不到工具: " (tool not found)
ToolNotFoundPrefix == "tool not found: "
\* "抱歉，我遇到了一个错误: " (sorry, I ran into an error)
ApologyPrefix == "sorry, I ran into an error: "
\* "不支持的模型: " (unsupported model)
UnsupportedPrefix == "unsupported model: "

\* the wrapped function of a Tool: echo returns x, boom raises
ToolFunction(name, kwargs) ==
    IF name = "boom"
    THEN [raises |-> TRUE, value |-> <<>>, error |-> ToolError]
    ELSE [raises |-> FALSE, value |-> kwargs.x, error |-> None]

\* Faulty variant of ToolCall: the exception is swallowed without its text
ToolCallSwallows(name, kwargs) ==
    LET r == ToolFunction(name, kwargs)
    IN  IF r.raises THEN <<ToolFailedPrefix>> ELSE r.value

\* Tool.__call__: an exception of the function is caught and the failure
\* text is the return value
ToolCall(name, kwargs) ==
    LET r == ToolFunction(name, kwargs)
    IN  IF r.raises THEN <<ToolFailedPrefix, r.error>> ELSE r.value

\* Faulty variant of FindTool: every name is taken for a registered tool
FindToolAny(registered, tool_name) == tool_name

\* next(t for t in self.tools if t.name == tool_name, None)
FindTool(registered, tool_name) == IF tool_name \in registered THEN tool_name ELSE None

\* Faulty variant of ToolMessage: the message is tagged with the name of the
\* function, not with the id of the request
ToolMessageByName(registered, call) ==
    IF FindTool(registered, call.name) # None /\ JsonLoads(call.arguments).mapping
    THEN MessageTool(ToolCall(call.name, JsonLoads(call.arguments)), call.name)
    ELSE MessageTool(<<ToolNotFoundPrefix, call.name>>, call.name)

\* The tool-role Message _handle_tool_calls builds for one decoded request:
\* lookup, then tool(**tool_args) under try/except, then Message.tool
ToolMessage(registered, call) ==
    LET tool_args == JsonLoads(call.arguments)
        tool == FindTool(registered, call.name)
    IN  IF tool # None
        THEN IF tool_args.mapping
             THEN MessageTool(ToolCall(tool, tool_args), call.id)
             ELSE MessageTool(<<ToolFailedPrefix, TypeErrorText>>, call.id)
        ELSE MessageTool(<<ToolNotFoundPrefix, call.name>>, call.id)

\* whether handling the request calls the function of a registered tool
Invokes(registered, call) ==
    /\ ~JsonLoads(call.arguments).raises
    /\ FindTool(registered, call.name) # None
    /\ JsonLoads(call.arguments).mapping

----------------------------------------------------------------------------
(* Memory (memory/memory_manager.py) *)

\* Faulty variant of STMAdd: the buffer has no maxlen
STMAddUnbounded(buf, m, K) == Append(buf, m)

\* Faulty variant of STMAdd: a full buffer drops the new message
STMAddDropsNewest(buf, m, K) ==
    IF Len(buf) < K THEN Append(buf, m) ELSE buf

\* Faulty variant of STMAdd: a system message at the head of a full buffer is
\* kept and the message after it is dropped
STMAddPinsSystem(buf, m, K) ==
    IF K = 0 THEN buf
    ELSE IF Len(buf) < K THEN Append(buf, m)
    ELSE IF buf[1].role = RoleSystem /\ K > 1
         THEN <<buf[1]>> \o Append(Tail(Tail(buf)), m)
         ELSE Append(Tail(buf), m)

\* ShortTermMemory.add on deque(maxlen=K): a full deque drops its oldest
STMAdd(buf, m, K) ==
    IF K = 0 THEN buf
    ELSE IF Len(buf) < K THEN Append(buf, m)
    ELSE Append(Tail(buf), m)

\* uuid4 of the k-th conversation
ConvId(k) == "conv_" \o ToString(k)

\* the rows of a conversation in table messages, in id order
LogOf(log, conversation_id) ==
    IF conversation_id \in DOMAIN log THEN log[conversation_id] ELSE <<>>

\* the columns LongTermMemory.add inserts (timestamp and metadata left out):
\* message.role.value, message.content, message.name
Row(m) == [role |-> RoleValue(m.role), content |-> m.content, name |-> m.name]

\* Faulty variant of LTMAddMessages: the row is put before the rows of the
\* conversation
LTMAddMessagesFirst(log, m, conversation_id) ==
    [c \in DOMAIN log \cup {conversation_id} |->
        IF c = conversation_id THEN <<Row(m)>> \o LogOf(log, c) ELSE log[c]]

\* LongTermMemory.add, table messages: INSERT INTO messages
LTMAddMessages(log, m, conversation_id) ==
    [c \in DOMAIN log \cup {conversation_id} |->
        IF c = conversation_id THEN Append(LogOf(log, c), Row(m)) ELSE log[c]]

\* LongTermMemory.add, table conversations: UPDATE, and INSERT when no row matched
LTMAddConversations(index, conversation_id) == index \cup {conversation_id}

\* Faulty variant of GetConversation: a tool-role row comes back with a
\* tool_call_id
GetConversationWithIds(log, conversation_id) ==
    [i \in 1..Len(LogOf(log, conversation_id)) |->
        [role |-> LogOf(log, conversation_id)[i].role,
         content |-> LogOf(log, conversation_id)[i].content,
         name |-> LogOf(log, conversation_id)[i].name,
         tool_calls |-> <<>>,
         tool_call_id |-> IF LogOf(log, conversation_id)[i].role = "tool"
                          THEN CallId(1) ELSE None]]

\* LongTermMemory.get_conversation: one Message per row in id order, built as
\* Message(role=role, content=content, name=name): its role is the str of the
\* row, no member of Role, and it has no tool_calls and no tool_call_id
GetConversation(log, conversation_id) ==
    [i \in 1..Len(LogOf(log, conversation_id)) |->
        [role |-> LogOf(log, conversation_id)[i].role,
         content |-> LogOf(log, conversation_id)[i].content,
         name |-> LogOf(log, conversation_id)[i].name,
         tool_calls |-> <<>>, tool_call_id |-> None]]

\* for message in messages: self.short_term.add(message)
RECURSIVE STMAddAll(_, _, _)
STMAddAll(buf, messages, K) ==
    IF messages = <<>> THEN buf
    ELSE STMAddAll(STMAdd(buf, Head(messages), K), Tail(messages), K)

\* Faulty variant of SetConversation: the log is replayed on top of what the
\* short-term memory holds
SetConversationKeeps(buf, log, enabled, conversation_id, K) ==
    IF enabled /\ Truthy(conversation_id)
    THEN STMAddAll(buf, GetConversation(log, conversation_id), K)
    ELSE buf

\* MemoryManager.set_conversation, the short-term memory afterwards: cleared
\* and refilled from the log when long-term memory is enabled and the id is
\* truthy, and left as it is otherwise
SetConversation(buf, log, enabled, conversation_id, K) ==
    IF enabled /\ Truthy(conversation_id)
    THEN STMAddAll(<<>>, GetConversation(log, conversation_id), K)
    ELSE buf

\* the entry file does not exist
NoFile == [exists |-> FALSE, chunks |-> <<>>]

\* no connection is open
NoTx == [open |-> FALSE, messages |-> EmptyDict, conversations |-> {}]

\* LongTermMemory.delete_conversation, table messages
LTMDeleteMessages(log, conversation_id) ==
    [c \in DOMAIN log \ {conversation_id} |-> log[c]]

\* Faulty variant of LTMDeleteConversations: the index row stays
LTMDeleteConversationsKeeps(index, conversation_id) == index

\* LongTermMemory.delete_conversation, table conversations
LTMDeleteConversations(index, conversation_id) == index \ {conversation_id}

\* sqlite3.connect: the connection sees the committed tables
Connect(log, index) == [open |-> TRUE, messages |-> log, conversations |-> index]

\* Faulty variant of Rollback: the statements executed before the failure
\* stay (a connection in autocommit mode)
RollbackKeeps(committed, pending) == pending

\* the except branch of a LongTermMemory method: the connection is dropped
\* with its transaction open, which sqlite rolls back
Rollback(committed, pending) == committed

\* conversation, whichever is the current one
MemoryAddToFirst(m) ==
    /\ shortTerm' = STMAdd(shortTerm, m, capacity)
    /\ sinceSeed' = Min(sinceSeed + 1, MaxCapacity)
    /\ IF longTermEnabled /\ Truthy(conversationId) /\ storeOk
       THEN /\ ltmMessages' = LTMAddMessages(ltmMessages, m, ConvId(1))
            /\ ltmConversations' = LTMAddConversations(ltmConversations, ConvId(1))
       ELSE UNCHANGED <<ltmMessages, ltmConversations>>

\* Faulty variant of MemoryAdd: the message enters the short-term buffer twice
MemoryAddTwice(m) ==
    /\ shortTerm' = STMAdd(STMAdd(shortTerm, m, capacity), m, capacity)
    /\ sinceSeed' = Min(sinceSeed + 1, MaxCapacity)
    /\ IF longTermEnabled /\ Truthy(conversationId) /\ storeOk
       THEN /\ ltmMessages' = LTMAddMessages(ltmMessages, m, conversationId)
            /\ ltmConversations' = LTMAddConversations(ltmConversations, conversationId)
       ELSE UNCHANGED <<ltmMessages, ltmConversations>>

\* Faulty variant of MemoryAdd: an add the database fails leaves its message
\* row behind (the INSERT is not rolled back)
MemoryAddHalfWritten(m) ==
    /\ shortTerm' = STMAdd(shortTerm, m, capacity)
    /\ sinceSeed' = Min(sinceSeed + 1, MaxCapacity)
    /\ IF longTermEnabled /\ Truthy(conversationId)
       THEN /\ ltmMessages' = LTMAddMessages(ltmMessages, m, conversationId)
            /\ ltmConversations' =
                  IF storeOk THEN LTMAddConversations(ltmConversations, conversationId)
                  ELSE ltmConversations
       ELSE UNCHANGED <<ltmMessages, ltmConversations>>

\* MemoryManager.add: short-term always, long-term when enabled and an id is
\* set. LongTermMemory.add catches every exception of the database and logs
\* it: its connection is dropped without a commit, so neither table changes
MemoryAdd(m) ==
    /\ shortTerm' = STMAdd(shortTerm, m, capacity)
    /\ sinceSeed' = Min(sinceSeed + 1, MaxCapacity)
    /\ IF longTermEnabled /\ Truthy(conversationId) /\ storeOk
       THEN /\ ltmMessages' = LTMAddMessages(ltmMessages, m, conversationId)
            /\ ltmConversations' = LTMAddConversations(ltmConversations, conversationId)
       ELSE UNCHANGED <<ltmMessages, ltmConversations>>

----------------------------------------------------------------------------
(* Cache (cache/cache_manager.py) *)

\* CACHE expiry_days default
ExpiryDays == 7

\* json.dumps / json.dump of a message dictionary: a TypeError is raised when
\* it holds a tool call that is an object of the client library
Serializable(d) ==
    \A i \in 1..Len(DictGet(d, "tool_calls", <<>>)) : d.tool_calls[i].form # "object"

\* json.dumps(data, sort_keys=True) of a request returns
KeySerializable(data) == \A i \in 1..Len(data.messages) : Serializable(data.messages[i])

\* _generate_cache_key: md5 of json.dumps(data, sort_keys=True); the digest is
\* taken to be collision free, so the key is the request up to key order
GenerateCacheKey(data) == data

\* Faulty variant of CacheHas: the age of the entry is not looked at
CacheHasStale(entries, data, time) ==
    /\ GenerateCacheKey(data) \in DOMAIN entries
    /\ entries[GenerateCacheKey(data)].readable

\* CacheManager.get, the value returned: whether an entry file exists, can be
\* read back and has not expired
CacheHas(entries, data, time) ==
    /\ GenerateCacheKey(data) \in DOMAIN entries
    /\ entries[GenerateCacheKey(data)].readable
    /\ ~(time > entries[GenerateCacheKey(data)].timestamp + ExpiryDays)

\* Faulty variant of CacheAfterGet: get removes nothing
CacheAfterGetKeeps(entries, data, time) == entries

\* CacheManager.get, the directory afterwards: an expired entry is removed
\* (a file that cannot be read back stays: json.load raises before the check)
CacheAfterGet(entries, data, time) ==
    IF /\ GenerateCacheKey(data) \in DOMAIN entries
       /\ entries[GenerateCacheKey(data)].readable
       /\ time > entries[GenerateCacheKey(data)].timestamp + ExpiryDays
    THEN [k \in DOMAIN entries \ {GenerateCacheKey(data)} |-> entries[k]]
    ELSE entries

\* CacheManager.set: the entry file is created or overwritten. When json.dump
\* raises on the response the exception is logged and the file, opened for
\* writing and cut short, stays and cannot be read back
CacheSet(entries, data, resp, time) ==
    [k \in DOMAIN entries \cup {GenerateCacheKey(data)} |->
        IF k = GenerateCacheKey(data)
        THEN [timestamp |-> time, request |-> data, response |-> resp,
              readable |-> Serializable(resp)]
        ELSE entries[k]]

----------------------------------------------------------------------------
(* Agent (core/agent.py) *)

ModelIds == {"openai", "claude", "other"}

\* request_data of _call_model: model, messages, and the tools for openai
\* (temperature and max_tokens are the same in every request of an Agent)
RequestOf(model, registered, messages) ==
    [model |-> model,
     messages |-> [i \in 1..Len(messages) |-> ToDict(messages[i])],
     tools |-> IF registered # {} /\ model = "openai" THEN registered ELSE {}]

RequestData(messages) == RequestOf(modelId, tools, messages)

\* The cache directory a new Agent finds: empty, or holding the entry an
\* earlier Agent of the same model, tools, capacity and system prompt wrote
\* when its first run was answered with text
InitialCaches(model, registered, K) ==
    {EmptyDict} \cup
    {CacheSet(EmptyDict,
              RequestOf(model, registered,
                        STMAdd(STMAdd(<<>>, MessageSystem(SystemPrompt), K),
                               MessageUser(input_text), K)),
              ToDict(Message(RoleAssistant, content, <<>>, None)), 0) :
        input_text \in Texts, content \in {c \in Contents : model \in {"openai", "claude"}}}

\* how a _call_model was answered: from the cache ("hit"), by the backend with
\* text ("says") or tool-call requests ("calls"), by an exception of the
\* backend call ("fails") or of the model selection ("unsupported")
Outcome(kind, text) == [kind |-> kind, text |-> text]

\* Faulty variant of Apology: the error text is left out
ApologyBare(error_text) == MessageAssistant(<<ApologyPrefix>>)

\* Message.assistant(f"抱歉，我遇到了一个错误: {str(e)}")
Apology(error_text) == MessageAssistant(<<ApologyPrefix>> \o error_text)

\* no Message yet
NoMessage == Message(None, <<>>, <<>>, None)

\* the caller is between two calls on the Agent
AtRest ==
    pc \in {"idle", "done", "raised", "clear_memory", "new_conversation",
            "load_conversation", "delete_conversation"}

\* Agent.__init__: a new conversation id, set_conversation on an empty log,
\* then memory.add of the system message
Init ==
    /\ capacity \in 1..MaxCapacity
    /\ longTermEnabled \in BOOLEAN
    /\ enableCache \in BOOLEAN
    /\ modelId \in ModelIds
    /\ tools \in ToolSets
    /\ conversationId = ConvId(1)
    /\ shortTerm = STMAdd(<<>>, MessageSystem(SystemPrompt), capacity)
    /\ sinceSeed = 0
    /\ ltmMessages =
          IF longTermEnabled
          THEN LTMAddMessages(EmptyDict, MessageSystem(SystemPrompt), ConvId(1))
          ELSE EmptyDict
    /\ ltmConversations =
          IF longTermEnabled THEN LTMAddConversations({}, ConvId(1)) ELSE {}
    /\ cache \in IF enableCache THEN InitialCaches(modelId, tools, capacity) ELSE {EmptyDict}
    /\ now = 0
    /\ pc = "idle"
    /\ callNo = 0
    /\ response = NoMessage
    /\ idx = 0
    /\ returned = <<>>
    /\ runs = 0
    /\ requestsLeft = MaxRequests
    /\ minted = 1
    /\ storeOk = TRUE
    /\ tx = NoTx
    /\ file = NoFile
    /\ procs = EmptyDict
    /\ ops = 0
    /\ added = <<>>
    /\ asked = <<>>
    /\ outcomes = <<>>
    /\ invoked = <<>>

config == <<capacity, longTermEnabled, enableCache, modelId, tools, conversationId, now,
            minted, ops, storeOk, tx, file, procs>>

\* Agent.run up to the first _call_model: memory.add(Message.user(input_text))
RunStart(input_text, limit) ==
    /\ AtRest
    /\ runs < limit
    /\ MemoryAdd(MessageUser(input_text))
    /\ added' = <<MessageUser(input_text)>>
    /\ pc' = "model"
    /\ callNo' = 1
    /\ response' = NoMessage
    /\ idx' = 0
    /\ returned' = <<>>
    /\ runs' = runs + 1
    /\ asked' = input_text
    /\ outcomes' = <<>>
    /\ invoked' = <<>>
    /\ UNCHANGED <<config, cache, requestsLeft>>

\* Faulty variant of Continue: every response with tool_calls is dispatched
ContinueAgain(resp) ==
    /\ response' = resp
    /\ MemoryAdd(resp)
    /\ added' = Append(added, resp)
    /\ IF resp.tool_calls # <<>>
       THEN /\ pc' = "dispatch"
            /\ idx' = 1
            /\ returned' = returned
       ELSE /\ pc' = "done"
            /\ idx' = idx
            /\ returned' = resp.content
    /\ UNCHANGED <<config, callNo, runs, asked, invoked>>

\* What follows a _call_model that returned resp. After the first call, a
\* response with tool_calls enters _handle_tool_calls, which adds it to memory
\* and starts its loop; any other response, and every response of the second
\* call, is added to memory by run and its content returned.
Continue(resp) ==
    /\ response' = resp
    /\ MemoryAdd(resp)
    /\ added' = Append(added, resp)
    /\ IF callNo = 1 /\ resp.tool_calls # <<>>
       THEN /\ pc' = "dispatch"
            /\ idx' = 1
            /\ returned' = returned
       ELSE /\ pc' = "done"
            /\ idx' = idx
            /\ returned' = resp.content
    /\ UNCHANGED <<config, callNo, runs, asked, invoked>>

\* _call_model, [message.to_dict() for message in messages] returns: every
\* message of the history has a member of Role as its role
DictsBuilt == \A i \in 1..Len(shortTerm) : shortTerm[i].role \in Roles

\* _call_model, to_dict raises: self.role.value of a message whose role is a
\* str raises AttributeError while request_data is built, outside every try,
\* and the exception leaves run
ToDictRaises ==
    /\ pc = "model"
    /\ ~DictsBuilt
    /\ pc' = "raised"
    /\ UNCHANGED <<config, shortTerm, sinceSeed, ltmMessages, ltmConversations, cache, callNo,
                   response, idx, returned, runs, requestsLeft, added, asked,
                   outcomes, invoked>>

\* _call_model, cache hit: the cached dictionary becomes the response
CacheHit ==
    /\ pc = "model"
    /\ DictsBuilt
    /\ enableCache
    /\ KeySerializable(RequestData(shortTerm))
    /\ CacheHas(cache, RequestData(shortTerm), now)
    /\ Continue(FromDict(cache[GenerateCacheKey(RequestData(shortTerm))].response))
    /\ outcomes' = Append(outcomes, Outcome("hit", <<>>))
    /\ UNCHANGED <<cache, requestsLeft>>

\* _call_model, cache.get raises: json.dumps of the request raises TypeError in
\* _generate_cache_key, outside every try, and the exception leaves run
CacheKeyRaises ==
    /\ pc = "model"
    /\ DictsBuilt
    /\ enableCache
    /\ ~KeySerializable(RequestData(shortTerm))
    /\ pc' = "raised"
    /\ UNCHANGED <<config, shortTerm, sinceSeed, ltmMessages, ltmConversations, cache, callNo,
                   response, idx, returned, runs, requestsLeft, added, asked,
                   outcomes, invoked>>

\* the cache lookup of _call_model returned and did not answer the call
CacheMiss ==
    /\ DictsBuilt
    /\ \/ ~enableCache
       \/ /\ KeySerializable(RequestData(shortTerm))
          /\ ~CacheHas(cache, RequestData(shortTerm), now)

\* the cache directory after the lookup of _call_model
CacheLookedUp ==
    IF enableCache THEN CacheAfterGet(cache, RequestData(shortTerm), now) ELSE cache

\* Faulty variant of CacheStored: the response is stored whether or not
\* caching is enabled
CacheStoredAlways(resp) ==
    CacheSet(CacheLookedUp, RequestData(shortTerm), ToDict(resp), now)

\* the cache directory after a backend call that returned resp
CacheStored(resp) ==
    IF enableCache
    THEN CacheSet(CacheLookedUp, RequestData(shortTerm), ToDict(resp), now)
    ELSE CacheLookedUp

\* _call_openai / _call_claude: the backend answers with text and no tool calls
BackendSays(content) ==
    /\ pc = "model"
    /\ CacheMiss
    /\ modelId \in {"openai", "claude"}
    /\ Continue(Message(RoleAssistant, content, <<>>, None))
    /\ cache' = CacheStored(Message(RoleAssistant, content, <<>>, None))
    /\ outcomes' = Append(outcomes, Outcome("says", content))
    /\ UNCHANGED requestsLeft

\* _call_openai: the backend answers with tool-call requests (content None -> "")
BackendCalls(shapes) ==
    /\ pc = "model"
    /\ CacheMiss
    /\ modelId = "openai"
    /\ LET resp == Message(RoleAssistant, <<>>,
                           ToolCalls(shapes, MaxRequests - requestsLeft + 1), None)
       IN  /\ Continue(resp)
           /\ cache' = CacheStored(resp)
           /\ outcomes' = Append(outcomes, Outcome("calls", <<>>))
    /\ requestsLeft' = requestsLeft - Len(shapes)

\* _call_model, except branch: the backend call raised (transport error or a
\* response that cannot be parsed); the apology is the response, nothing is cached
BackendFails(error) ==
    /\ pc = "model"
    /\ CacheMiss
    /\ modelId \in {"openai", "claude"}
    /\ Continue(Apology(<<error>>))
    /\ cache' = CacheLookedUp
    /\ outcomes' = Append(outcomes, Outcome("fails", <<error>>))
    /\ UNCHANGED requestsLeft

\* _call_model, else branch: ValueError for a model that is neither openai nor claude
UnsupportedModel ==
    /\ pc = "model"
    /\ CacheMiss
    /\ modelId \notin {"openai", "claude"}
    /\ Continue(Apology(<<UnsupportedPrefix, modelId>>))
    /\ cache' = CacheLookedUp
    /\ outcomes' = Append(outcomes, Outcome("unsupported", <<UnsupportedPrefix, modelId>>))
    /\ UNCHANGED requestsLeft

\* _handle_tool_calls, one pass of the loop whose json.loads raises: the
\* JSONDecodeError is caught nowhere and leaves run
DispatchRaises ==
    /\ pc = "dispatch"
    /\ JsonLoads(response.tool_calls[idx].arguments).raises
    /\ pc' = "raised"
    /\ UNCHANGED <<config, shortTerm, sinceSeed, ltmMessages, ltmConversations, cache, callNo,
                   response, idx, returned, runs, requestsLeft, added, asked,
                   outcomes, invoked>>

\* _handle_tool_calls, one pass of the loop: the tool-role message of the
\* request is added to memory; after the last request the model is called again
DispatchTool ==
    /\ pc = "dispatch"
    /\ ~JsonLoads(response.tool_calls[idx].arguments).raises
    /\ MemoryAdd(ToolMessage(tools, response.tool_calls[idx]))
    /\ added' = Append(added, ToolMessage(tools, response.tool_calls[idx]))
    /\ invoked' = IF Invokes(tools, response.tool_calls[idx])
                  THEN Append(invoked, response.tool_calls[idx].id)
                  ELSE invoked
    /\ idx' = idx + 1
    /\ IF idx = Len(response.tool_calls)
       THEN pc' = "model" /\ callNo' = 2
       ELSE pc' = "dispatch" /\ callNo' = callNo
    /\ UNCHANGED <<config, cache, response, returned, runs, requestsLeft, asked,
                   outcomes>>

\* the tool_calls lists a backend response may carry: at most MaxCalls
\* requests, and no more than the backend may still emit
CallLists(left) == UNION {[1..n -> RequestShapes] : n \in 1..Min(MaxCalls, left)}

Next ==
    \/ \E input_text \in Texts : RunStart(input_text, MaxRuns)
    \/ CacheHit
    \/ CacheKeyRaises
    \/ \E content \in Contents : BackendSays(content)
    \/ \E shapes \in CallLists(requestsLeft) : BackendCalls(shapes)
    \/ \E error \in BackendErrors : BackendFails(error)
    \/ UnsupportedModel
    \/ DispatchRaises
    \/ DispatchTool

Spec == Init /\ [][Next]_vars

\* An Agent without tools: the request carries no tool schema and the backend
\* answers with text or fails; caching is off
InitChat ==
    /\ Init
    /\ tools = {}
    /\ ~enableCache

NextChat ==
    \/ \E input_text \in Texts : RunStart(input_text, MaxChatRuns)
    \/ \E content \in Contents : BackendSays(content)
    \/ \E error \in BackendErrors : BackendFails(error)
    \/ UnsupportedModel

SpecChat == InitChat /\ [][NextChat]_vars

\* The same Agent with long-term memory enabled on a database that stops and
\* resumes answering at any moment (locked, unwritable or full)
InitFail ==
    /\ InitChat
    /\ longTermEnabled
    /\ modelId = "openai"

\* the database starts or stops failing
StoreFlips ==
    /\ storeOk' = ~storeOk
    /\ UNCHANGED <<capacity, longTermEnabled, enableCache, modelId, tools, shortTerm, sinceSeed,
                   conversationId, ltmMessages, ltmConversations, cache, now, pc,
                   callNo, response, idx, returned, runs, requestsLeft, minted, ops,
                   tx, file, procs, added, asked, outcomes, invoked>>

NextFail ==
    \/ \E input_text \in Texts : RunStart(input_text, MaxFailRuns)
    \/ \E content \in Contents : BackendSays(content)
    \/ \E error \in BackendErrors : BackendFails(error)
    \/ StoreFlips

SpecFail == InitFail /\ [][NextFail]_vars

\* the tool_calls lists of a backend that only requests
\* echo with a decodable payload
EchoCallLists(left) ==
    UNION {[1..n -> {[name |-> "echo", arguments |-> PayloadObject]}] :
              n \in 1..Min(MaxCalls, left)}

\* An Agent, with or without the tool echo and with caching on or off, that is
\* run more than once while time passes: a later call may find the entry an
\* earlier call wrote, live or expired
InitCached ==
    /\ Init
    /\ capacity <= MaxConvCapacity
    /\ ~longTermEnabled
    /\ tools \in {{}, {"echo"}}

\* time.time() advances between two runs, by a day or by the expiry period
\* (a run takes no time on the scale of days)
TimePasses(days) ==
    /\ AtRest
    /\ now + days <= MaxNow
    /\ now' = now + days
    /\ UNCHANGED <<capacity, longTermEnabled, enableCache, modelId, tools, shortTerm, sinceSeed,
                   conversationId, ltmMessages, ltmConversations, cache, pc, callNo,
                   response, idx, returned, runs, requestsLeft, minted, ops, storeOk,
                   tx, file, procs, added, asked, outcomes, invoked>>

NextCached ==
    \/ \E input_text \in Texts : RunStart(input_text, MaxCachedRuns)
    \/ CacheHit
    \/ CacheKeyRaises
    \/ \E content \in Contents : BackendSays(content)
    \/ \E shapes \in EchoCallLists(requestsLeft) : tools # {} /\ BackendCalls(shapes)
    \/ \E error \in BackendErrors : BackendFails(error)
    \/ UnsupportedModel
    \/ DispatchTool
    \/ \E days \in {1, ExpiryDays} : TimePasses(days)

SpecCached == InitCached /\ [][NextCached]_vars

----------------------------------------------------------------------------
(* Conversations: clear_memory, new_conversation, load_conversation and    *)
(* delete_conversation, called between runs.                                *)

\* An operation on conversations is one more call on the Agent. It does not
\* touch a run: the run before it is over, and what is kept of that run (its
\* locals and its history) is dropped
RunOver ==
    /\ callNo' = 0
    /\ response' = NoMessage
    /\ idx' = 0
    /\ returned' = <<>>
    /\ added' = <<>>
    /\ asked' = <<>>
    /\ outcomes' = <<>>
    /\ invoked' = <<>>
    /\ runs + ops < MaxConvCalls
    /\ ops' = ops + 1
    /\ UNCHANGED <<runs, requestsLeft>>

\* Faulty variant of ClearMemory: the short-term memory is not cleared
ClearMemoryKeeps ==
    /\ AtRest
    /\ shortTerm' = STMAdd(shortTerm, MessageSystem(SystemPrompt), capacity)
    /\ sinceSeed' = 0
    /\ IF longTermEnabled /\ Truthy(conversationId)
       THEN /\ ltmMessages' =
                 LTMAddMessages(ltmMessages, MessageSystem(SystemPrompt), conversationId)
            /\ ltmConversations' = LTMAddConversations(ltmConversations, conversationId)
       ELSE UNCHANGED <<ltmMessages, ltmConversations>>
    /\ pc' = "clear_memory"
    /\ RunOver
    /\ UNCHANGED <<capacity, longTermEnabled, enableCache, modelId, tools,
                   conversationId, now, minted, storeOk, tx, file, procs, cache>>

\* Agent.clear_memory: clear_short_term, then memory.add of the system message
ClearMemory ==
    /\ AtRest
    /\ shortTerm' = STMAdd(<<>>, MessageSystem(SystemPrompt), capacity)
    /\ sinceSeed' = 0
    /\ IF longTermEnabled /\ Truthy(conversationId)
       THEN /\ ltmMessages' =
                 LTMAddMessages(ltmMessages, MessageSystem(SystemPrompt), conversationId)
            /\ ltmConversations' = LTMAddConversations(ltmConversations, conversationId)
       ELSE UNCHANGED <<ltmMessages, ltmConversations>>
    /\ pc' = "clear_memory"
    /\ RunOver
    /\ UNCHANGED <<capacity, longTermEnabled, enableCache, modelId, tools,
                   conversationId, now, minted, storeOk, tx, file, procs, cache>>

\* Agent.new_conversation: a new uuid4, memory.set_conversation of it, then
\* memory.add of the system message
NewConversation ==
    /\ AtRest
    /\ minted' = minted + 1
    /\ conversationId' = ConvId(minted + 1)
    /\ sinceSeed' = 0
    /\ shortTerm' =
          STMAdd(SetConversation(shortTerm, ltmMessages, longTermEnabled,
                                 ConvId(minted + 1), capacity),
                 MessageSystem(SystemPrompt), capacity)
    /\ IF longTermEnabled
       THEN /\ ltmMessages' =
                 LTMAddMessages(ltmMessages, MessageSystem(SystemPrompt), ConvId(minted + 1))
            /\ ltmConversations' =
                 LTMAddConversations(ltmConversations, ConvId(minted + 1))
       ELSE UNCHANGED <<ltmMessages, ltmConversations>>
    /\ pc' = "new_conversation"
    /\ RunOver
    /\ UNCHANGED <<capacity, longTermEnabled, enableCache, modelId, tools, now, cache,
                   storeOk, tx, file, procs>>

\* the ids a caller passes to load_conversation and delete_conversation: the
\* ids the Agent has generated, and the empty string
KnownIds == {ConvId(k) : k \in 1..minted} \cup {""}

\* Agent.load_conversation: the id becomes the current one and
\* memory.set_conversation replays its log
LoadConversation(conversation_id) ==
    /\ AtRest
    /\ conversationId' = conversation_id
    /\ sinceSeed' = sinceSeed
    /\ shortTerm' = SetConversation(shortTerm, ltmMessages, longTermEnabled,
                                    conversation_id, capacity)
    /\ pc' = "load_conversation"
    /\ RunOver
    /\ UNCHANGED <<capacity, longTermEnabled, enableCache, modelId, tools, now, minted,
                   storeOk, tx, file, procs,
                   ltmMessages, ltmConversations, cache>>

\* Agent.delete_conversation: the rows of the id leave both tables when
\* long-term memory is enabled; the Agent's own state stays
DeleteConversation(conversation_id) ==
    /\ AtRest
    /\ IF longTermEnabled
       THEN /\ ltmMessages' = LTMDeleteMessages(ltmMessages, conversation_id)
            /\ ltmConversations' = LTMDeleteConversations(ltmConversations, conversation_id)
       ELSE UNCHANGED <<ltmMessages, ltmConversations>>
    /\ pc' = "delete_conversation"
    /\ RunOver
    /\ UNCHANGED <<capacity, longTermEnabled, enableCache, modelId, tools,
                   conversationId, now, minted, storeOk, tx, file, procs, shortTerm,
                   sinceSeed, cache>>

\* An Agent on openai with the tool echo and caching off
InitConv ==
    /\ Init
    /\ capacity <= MaxConvCapacity
    /\ ~enableCache
    /\ modelId = "openai"
    /\ tools = {"echo"}

NextConv ==
    \/ \E input_text \in Texts : RunStart(input_text, MaxConvCalls - ops)
    \/ ToDictRaises
    \/ BackendSays(<<"done">>)
    \/ \E shapes \in EchoCallLists(requestsLeft) : BackendCalls(shapes)
    \/ DispatchTool
    \/ ClearMemory
    \/ NewConversation
    \/ \E conversation_id \in KnownIds : LoadConversation(conversation_id)
    \/ \E conversation_id \in KnownIds : DeleteConversation(conversation_id)

SpecConv == InitConv /\ [][NextConv]_vars

\* The same Agent with long-term memory enabled, on which no conversation is
\* deleted
InitLog ==
    /\ InitConv
    /\ longTermEnabled

NextLog ==
    \/ \E input_text \in Texts : RunStart(input_text, MaxConvCalls - ops)
    \/ ToDictRaises
    \/ BackendSays(<<"done">>)
    \/ \E shapes \in EchoCallLists(requestsLeft) : BackendCalls(shapes)
    \/ DispatchTool
    \/ ClearMemory
    \/ NewConversation
    \/ \E conversation_id \in KnownIds : LoadConversation(conversation_id)

SpecLog == InitLog /\ [][NextLog]_vars

----------------------------------------------------------------------------
(* The short-term memory alone: messages are added to a ShortTermMemory of *)
(* capacity K; `added` keeps every message added.                          *)

\* messages added to the short-term memory
SomeMessages ==
    {MessageUser(<<"hi">>), MessageAssistant(<<"hello">>), MessageTool(<<"42">>, CallId(1))}

InitSTM ==
    /\ capacity \in 0..MaxCapacity
    /\ shortTerm = <<>>
    /\ sinceSeed = 0
    /\ added = <<>>
    /\ longTermEnabled = FALSE
    /\ enableCache = FALSE
    /\ modelId = "openai"
    /\ tools = {}
    /\ conversationId = None
    /\ ltmMessages = EmptyDict
    /\ ltmConversations = {}
    /\ cache = EmptyDict
    /\ now = 0
    /\ pc = "idle"
    /\ callNo = 0
    /\ response = NoMessage
    /\ idx = 0
    /\ returned = <<>>
    /\ runs = 0
    /\ requestsLeft = 0
    /\ minted = 0
    /\ storeOk = TRUE
    /\ tx = NoTx
    /\ file = NoFile
    /\ procs = EmptyDict
    /\ ops = 0
    /\ asked = <<>>
    /\ outcomes = <<>>
    /\ invoked = <<>>

\* ShortTermMemory.add(m)
ShortTermAdd(m) ==
    /\ Len(added) < MaxAdds
    /\ shortTerm' = STMAdd(shortTerm, m, capacity)
    /\ sinceSeed' = Min(sinceSeed + 1, MaxCapacity)
    /\ added' = Append(added, m)
    /\ UNCHANGED <<config, ltmMessages, ltmConversations, cache, pc, callNo, response,
                   idx, returned, runs, requestsLeft, asked, outcomes, invoked>>

NextSTM == \E m \in SomeMessages : ShortTermAdd(m)

SpecSTM == InitSTM /\ [][NextSTM]_vars

----------------------------------------------------------------------------
(* The cache alone: get and set of a CacheManager, and days passing. `asked` *)
(* is the request of the last call, `returned` what a get returned.          *)

\* requests of an Agent on openai with the tool echo
CacheRequests ==
    {RequestOf("openai", {"echo"}, <<MessageSystem(SystemPrompt), MessageUser(input_text)>>) :
        input_text \in {<<"hi">>, <<"bye">>}}

\* the responses _call_openai passes to set: assistant_message.to_dict() of a
\* text answer, and of an answer that carries a tool-call request
CacheResponses ==
    {ToDict(MessageAssistant(<<"hello">>)), ToDict(MessageAssistant(<<"done">>)),
     ToDict(Message(RoleAssistant, <<>>,
                    ToolCalls(<<[name |-> "echo", arguments |-> PayloadObject]>>, 1), None))}

\* what get returns: the response of the entry, or None
Found(resp) == [found |-> TRUE, response |-> resp]
NotFound == [found |-> FALSE, response |-> EmptyDict]

InitCache ==
    /\ cache = EmptyDict
    /\ now = 0
    /\ pc = "idle"
    /\ asked = <<>>
    /\ returned = NotFound
    /\ capacity = 0
    /\ shortTerm = <<>>
    /\ sinceSeed = 0
    /\ added = <<>>
    /\ longTermEnabled = FALSE
    /\ enableCache = TRUE
    /\ modelId = "openai"
    /\ tools = {"echo"}
    /\ conversationId = None
    /\ ltmMessages = EmptyDict
    /\ ltmConversations = {}
    /\ callNo = 0
    /\ response = NoMessage
    /\ idx = 0
    /\ runs = 0
    /\ requestsLeft = 0
    /\ minted = 0
    /\ storeOk = TRUE
    /\ tx = NoTx
    /\ file = NoFile
    /\ procs = EmptyDict
    /\ ops = 0
    /\ outcomes = <<>>
    /\ invoked = <<>>

\* what the calls on the cache leave alone
notCache == <<capacity, longTermEnabled, enableCache, modelId, tools, conversationId,
              minted, ops, storeOk, tx, file, procs, shortTerm, sinceSeed, ltmMessages,
              ltmConversations, callNo, response,
              idx, runs, requestsLeft, added, outcomes, invoked>>

\* CacheManager.set(data, response) at time now
CacheSetCall(data, resp) ==
    /\ cache' = CacheSet(cache, data, resp, now)
    /\ pc' = "set"
    /\ asked' = data
    /\ returned' = NotFound
    /\ UNCHANGED <<now, notCache>>

\* CacheManager.get(data) at time now
CacheGetCall(data) ==
    /\ returned' = IF CacheHas(cache, data, now)
                   THEN Found(cache[GenerateCacheKey(data)].response)
                   ELSE NotFound
    /\ cache' = CacheAfterGet(cache, data, now)
    /\ pc' = "get"
    /\ asked' = data
    /\ UNCHANGED <<now, notCache>>

\* days pass: one, or the expiry period
Tick(days) ==
    /\ now + days <= MaxNow
    /\ now' = now + days
    /\ pc' = "tick"
    /\ UNCHANGED <<cache, asked, returned, notCache>>

NextCache ==
    \/ \E data \in CacheRequests, resp \in CacheResponses : CacheSetCall(data, resp)
    \/ \E data \in CacheRequests : CacheGetCall(data)
    \/ \E days \in {1, ExpiryDays} : Tick(days)

SpecCache == InitCache /\ [][NextCache]_vars

----------------------------------------------------------------------------
(* Message.to_dict and Message.from_dict alone: `response` is a Message,    *)
(* `asked` its dictionary, `returned` the Message rebuilt from it.          *)

\* Messages as the constructors and the backend make them: every member of
\* Role, empty and non-empty content, with and without tool_calls (objects of
\* the client library, or dicts read back from JSON), with and without
\* tool_call_id and name
SampleMessages ==
    {[role |-> role, content |-> content, name |-> name, tool_calls |-> tool_calls,
      tool_call_id |-> tool_call_id] :
        role \in Roles, content \in {<<>>, <<"hello">>}, name \in {None, "echo"},
        tool_calls \in {<<>>,
                        ToolCalls(<<[name |-> "echo", arguments |-> PayloadObject]>>, 1),
                        <<[id |-> CallId(1), name |-> "echo", arguments |-> PayloadObject,
                           form |-> "dict"],
                          [id |-> CallId(2), name |-> "boom", arguments |-> PayloadList,
                           form |-> "dict"]>>},
        tool_call_id \in {None, CallId(1)}}

InitMsg ==
    /\ response \in SampleMessages
    /\ asked = EmptyDict
    /\ returned = NoMessage
    /\ pc = "message"
    /\ cache = EmptyDict
    /\ now = 0
    /\ capacity = 0
    /\ shortTerm = <<>>
    /\ sinceSeed = 0
    /\ added = <<>>
    /\ longTermEnabled = FALSE
    /\ enableCache = FALSE
    /\ modelId = "openai"
    /\ tools = {}
    /\ conversationId = None
    /\ ltmMessages = EmptyDict
    /\ ltmConversations = {}
    /\ callNo = 0
    /\ idx = 0
    /\ runs = 0
    /\ requestsLeft = 0
    /\ minted = 0
    /\ storeOk = TRUE
    /\ tx = NoTx
    /\ file = NoFile
    /\ procs = EmptyDict
    /\ ops = 0
    /\ outcomes = <<>>
    /\ invoked = <<>>

\* message.to_dict()
ToDictCall ==
    /\ pc = "message"
    /\ asked' = ToDict(response)
    /\ pc' = "dict"
    /\ UNCHANGED <<response, returned, cache, now, notCache>>

\* Message.from_dict(data)
FromDictCall ==
    /\ pc = "dict"
    /\ returned' = FromDict(asked)
    /\ pc' = "rebuilt"
    /\ UNCHANGED <<response, asked, cache, now, notCache>>

NextMsg == ToDictCall \/ FromDictCall

SpecMsg == InitMsg /\ [][NextMsg]_vars

----------------------------------------------------------------------------
(* The entry file of one cache key, shared without locks: two other agents  *)
(* set the key while one get reads it. A set opens the file for writing,    *)
(* which empties it, and writes it piece by piece at its own offset; a get  *)
(* reads piece by piece up to the end of the file and then parses.          *)

Writers == {"w1", "w2"}
Reader == "r"

\* the responses the writers store: two of the longest size and a short one
RaceValues == {"a", "b", "c"}

\* the number of writes the entry of a value takes
ValueLen(v) == IF v = "c" THEN 1 ELSE MaxChunks

\* the i-th piece of the JSON text of the entry of value v
Chunk(v, i) == [val |-> v, pos |-> i]

\* the bytes a write beyond the end of the file leaves in between
Hole == [val |-> "\\0", pos |-> 0]

\* json.dump has written the whole entry
EntryText(v) == [i \in 1..ValueLen(v) |-> Chunk(v, i)]

\* the response of an entry, piece by piece
EntryResponse(v) == [i \in 1..ValueLen(v) |-> v]

\* write(2) of one piece at offset i of the file
WriteAt(chunks, i, c) ==
    [j \in 1..(IF Len(chunks) > i THEN Len(chunks) ELSE i) |->
        IF j = i THEN c ELSE IF j <= Len(chunks) THEN chunks[j] ELSE Hole]

\* json.load accepts the text: every piece is in its place and the pieces are
\* those of entries of this length
Parses(buf) ==
    /\ buf # <<>>
    /\ \A i \in 1..Len(buf) : buf[i].pos = i /\ ValueLen(buf[i].val) = Len(buf)

\* the text is the entry one set wrote
Whole(buf) == \A i \in 1..Len(buf) : buf[i].val = buf[1].val

\* CacheManager.get, what it returns for the text it read: None when json.load
\* raises (the exception is caught), the response of the entry when the text is
\* one entry; for a text pieced together from two entries either of the two,
\* according to where the pieces meet
GetReturns(buf) ==
    IF ~Parses(buf) THEN {NotFound}
    ELSE IF Whole(buf) THEN {Found([i \in 1..Len(buf) |-> buf[i].val])}
    ELSE {NotFound, Found([i \in 1..Len(buf) |-> buf[i].val])}

Proc(op, pos, buf, val, sets) ==
    [op |-> op, pos |-> pos, buf |-> buf, val |-> val, sets |-> sets]

\* the file when the calls start: absent, an entry written in full, or an
\* entry cut short
InitialFiles ==
    {NoFile, [exists |-> TRUE, chunks |-> EntryText("a")],
     [exists |-> TRUE, chunks |-> <<Chunk("a", 1)>>]}

InitRace ==
    /\ file \in InitialFiles
    /\ procs = [p \in Writers \cup {Reader} |-> Proc("idle", 0, <<>>, None, 0)]
    /\ returned = NotFound
    /\ pc = "race"
    /\ cache = EmptyDict
    /\ now = 0
    /\ asked = <<>>
    /\ capacity = 0
    /\ shortTerm = <<>>
    /\ sinceSeed = 0
    /\ added = <<>>
    /\ longTermEnabled = FALSE
    /\ enableCache = TRUE
    /\ modelId = "openai"
    /\ tools = {}
    /\ conversationId = None
    /\ ltmMessages = EmptyDict
    /\ ltmConversations = {}
    /\ callNo = 0
    /\ response = NoMessage
    /\ idx = 0
    /\ runs = 0
    /\ requestsLeft = 0
    /\ minted = 0
    /\ storeOk = TRUE
    /\ tx = NoTx
    /\ ops = 0
    /\ outcomes = <<>>
    /\ invoked = <<>>

\* what the calls on the shared file leave alone
notRace == <<capacity, longTermEnabled, enableCache, modelId, tools, conversationId,
             minted, ops, storeOk, tx, shortTerm, sinceSeed, ltmMessages, ltmConversations,
             callNo, response, idx, runs, requestsLeft, added, outcomes, invoked,
             cache, now, pc, asked>>

\* CacheManager.set, open(cache_path, 'w'): the file is created or emptied
SetOpen(w, v) ==
    /\ procs[w].op = "idle"
    /\ procs[w].sets < MaxSets
    /\ file' = [exists |-> TRUE, chunks |-> <<>>]
    /\ procs' = [procs EXCEPT ![w] = Proc("writing", 1, <<>>, v, procs[w].sets)]
    /\ UNCHANGED <<returned, notRace>>

\* CacheManager.set, json.dump: the next piece is written at the writer's offset
SetWrite(w) ==
    /\ procs[w].op = "writing"
    /\ procs[w].pos <= ValueLen(procs[w].val)
    /\ file' = [file EXCEPT !.chunks =
                   WriteAt(file.chunks, procs[w].pos, Chunk(procs[w].val, procs[w].pos))]
    /\ procs' = [procs EXCEPT ![w].pos = procs[w].pos + 1]
    /\ UNCHANGED <<returned, notRace>>

\* CacheManager.set, the with block ends: the file is closed
SetClose(w) ==
    /\ procs[w].op = "writing"
    /\ procs[w].pos > ValueLen(procs[w].val)
    /\ procs' = [procs EXCEPT ![w] = Proc("idle", 0, <<>>, None, procs[w].sets + 1)]
    /\ UNCHANGED <<file, returned, notRace>>

\* CacheManager.get, os.path.exists and open(cache_path, 'r')
GetOpen ==
    /\ procs[Reader].op = "idle"
    /\ IF file.exists
       THEN /\ procs' = [procs EXCEPT ![Reader] = Proc("reading", 1, <<>>, None, 0)]
            /\ returned' = returned
       ELSE /\ procs' = [procs EXCEPT ![Reader] = Proc("returned", 0, <<>>, None, 1)]
            /\ returned' = NotFound
    /\ UNCHANGED <<file, notRace>>

\* CacheManager.get, json.load reads the file: the next piece
GetRead ==
    /\ procs[Reader].op = "reading"
    /\ procs[Reader].pos <= Len(file.chunks)
    /\ procs' = [procs EXCEPT ![Reader].pos = procs[Reader].pos + 1,
                              ![Reader].buf = Append(procs[Reader].buf,
                                                     file.chunks[procs[Reader].pos])]
    /\ UNCHANGED <<file, returned, notRace>>

\* CacheManager.get, the end of the file is reached: json.load parses what was
\* read and get returns
GetLoad ==
    /\ procs[Reader].op = "reading"
    /\ procs[Reader].pos > Len(file.chunks)
    /\ returned' \in GetReturns(procs[Reader].buf)
    /\ procs' = [procs EXCEPT ![Reader].op = "returned", ![Reader].sets = 1]
    /\ UNCHANGED <<file, notRace>>

NextRace ==
    \/ \E w \in Writers, v \in RaceValues : SetOpen(w, v)
    \/ \E w \in Writers : SetWrite(w)
    \/ \E w \in Writers : SetClose(w)
    \/ GetOpen
    \/ GetRead
    \/ GetLoad

SpecRace == InitRace /\ [][NextRace]_vars

----------------------------------------------------------------------------
(* The LongTermMemory alone: add, delete_conversation and clear_all, each   *)
(* a transaction on its own connection (connect, two statements, commit),   *)
(* any step of which may fail. ltmMessages and ltmConversations are the     *)
(* committed tables, `asked` the arguments of the call in progress,         *)
(* `returned` what the last delete_conversation or clear_all returned and   *)
(* `outcomes` how each call ended.                                          *)

StoreIds == {ConvId(1), ConvId(2)}

StoreMessages == {MessageUser(<<"hi">>), MessageAssistant(<<"hello">>)}

\* the arguments of a call
StoreCall(op, m, conversation_id) ==
    [op |-> op, message |-> m, conversation_id |-> conversation_id]

\* how a call ended: committed, or failed at a step
Ended(how) == [kind |-> how, text |-> <<asked.op, asked.conversation_id>>]

InitLTM ==
    /\ ltmMessages = EmptyDict
    /\ ltmConversations = {}
    /\ tx = NoTx
    /\ pc = "idle"
    /\ asked = StoreCall(None, NoMessage, None)
    /\ returned = FALSE
    /\ outcomes = <<>>
    /\ ops = 0
    /\ storeOk = TRUE
    /\ cache = EmptyDict
    /\ now = 0
    /\ capacity = 0
    /\ shortTerm = <<>>
    /\ sinceSeed = 0
    /\ added = <<>>
    /\ longTermEnabled = TRUE
    /\ enableCache = FALSE
    /\ modelId = "openai"
    /\ tools = {}
    /\ conversationId = None
    /\ callNo = 0
    /\ response = NoMessage
    /\ idx = 0
    /\ runs = 0
    /\ requestsLeft = 0
    /\ minted = 0
    /\ file = NoFile
    /\ procs = EmptyDict
    /\ invoked = <<>>

\* what the calls on the LongTermMemory leave alone
notLTM == <<capacity, longTermEnabled, enableCache, modelId, tools, conversationId,
            minted, storeOk, file, procs, shortTerm, sinceSeed, callNo, response, idx, runs,
            requestsLeft, added, invoked, cache, now>>

\* a method is entered and connects
StoreConnect(op, m, conversation_id) ==
    /\ pc = "idle"
    /\ ops < MaxStoreCalls
    /\ ops' = ops + 1
    /\ asked' = StoreCall(op, m, conversation_id)
    /\ tx' = Connect(ltmMessages, ltmConversations)
    /\ pc' = op \o "_messages"
    /\ UNCHANGED <<ltmMessages, ltmConversations, returned, outcomes, notLTM>>

\* LongTermMemory.add, INSERT INTO messages
AddInsert ==
    /\ pc = "add_messages"
    /\ tx' = [tx EXCEPT !.messages =
                 LTMAddMessages(tx.messages, asked.message, asked.conversation_id)]
    /\ pc' = "add_conversations"
    /\ UNCHANGED <<ltmMessages, ltmConversations, asked, returned, outcomes, ops, notLTM>>

\* LongTermMemory.add, UPDATE conversations and INSERT when rowcount is 0
AddUpdate ==
    /\ pc = "add_conversations"
    /\ tx' = [tx EXCEPT !.conversations =
                 LTMAddConversations(tx.conversations, asked.conversation_id)]
    /\ pc' = "add_commit"
    /\ UNCHANGED <<ltmMessages, ltmConversations, asked, returned, outcomes, ops, notLTM>>

\* LongTermMemory.delete_conversation, DELETE FROM messages
DeleteMessages ==
    /\ pc = "delete_messages"
    /\ tx' = [tx EXCEPT !.messages = LTMDeleteMessages(tx.messages, asked.conversation_id)]
    /\ pc' = "delete_conversations"
    /\ UNCHANGED <<ltmMessages, ltmConversations, asked, returned, outcomes, ops, notLTM>>

\* LongTermMemory.delete_conversation, DELETE FROM conversations
DeleteIndex ==
    /\ pc = "delete_conversations"
    /\ tx' = [tx EXCEPT !.conversations =
                 LTMDeleteConversations(tx.conversations, asked.conversation_id)]
    /\ pc' = "delete_commit"
    /\ UNCHANGED <<ltmMessages, ltmConversations, asked, returned, outcomes, ops, notLTM>>

\* LongTermMemory.clear_all, DELETE FROM messages
ClearMessages ==
    /\ pc = "clear_messages"
    /\ tx' = [tx EXCEPT !.messages = EmptyDict]
    /\ pc' = "clear_conversations"
    /\ UNCHANGED <<ltmMessages, ltmConversations, asked, returned, outcomes, ops, notLTM>>

\* LongTermMemory.clear_all, DELETE FROM conversations
ClearIndex ==
    /\ pc = "clear_conversations"
    /\ tx' = [tx EXCEPT !.conversations = {}]
    /\ pc' = "clear_commit"
    /\ UNCHANGED <<ltmMessages, ltmConversations, asked, returned, outcomes, ops, notLTM>>

\* conn.commit(), conn.close() and the return: True from delete_conversation
\* and clear_all, None from add
Commit ==
    /\ pc \in {"add_commit", "delete_commit", "clear_commit"}
    /\ ltmMessages' = tx.messages
    /\ ltmConversations' = tx.conversations
    /\ tx' = NoTx
    /\ returned' = IF asked.op = "add" THEN returned ELSE TRUE
    /\ outcomes' = Append(outcomes, Ended("committed"))
    /\ pc' = "idle"
    /\ UNCHANGED <<asked, ops, notLTM>>

\* the statement or the commit at hand raises (the database is locked, full or
\* unwritable); the except branch logs it and returns: False from
\* delete_conversation and clear_all, None from add
StatementFails ==
    /\ pc # "idle"
    /\ ltmMessages' = Rollback(ltmMessages, tx.messages)
    /\ ltmConversations' = Rollback(ltmConversations, tx.conversations)
    /\ tx' = NoTx
    /\ returned' = IF asked.op = "add" THEN returned ELSE FALSE
    /\ outcomes' = Append(outcomes, Ended(pc))
    /\ pc' = "idle"
    /\ UNCHANGED <<asked, ops, notLTM>>

NextLTM ==
    \/ \E m \in StoreMessages, conversation_id \in StoreIds :
          StoreConnect("add", m, conversation_id)
    \/ \E conversation_id \in StoreIds : StoreConnect("delete", NoMessage, conversation_id)
    \/ StoreConnect("clear", NoMessage, None)
    \/ AddInsert
    \/ AddUpdate
    \/ DeleteMessages
    \/ DeleteIndex
    \/ ClearMessages
    \/ ClearIndex
    \/ Commit
    \/ StatementFails

SpecLTM == InitLTM /\ [][NextLTM]_vars

----------------------------------------------------------------------------
(* Properties *)

\* the tool-call requests _handle_tool_calls was entered with in this run
\* (added = <<user message, that response, one message per handled request, ...>>)
Dispatched == IF idx > 0 THEN added[2].tool_calls ELSE <<>>

\* the i-th of those requests has been handled without an exception
Handled(i) == idx > i

\* The run of the echo scenario has ended: a first run, one tool echo, the
\* backend answered the first call with the one request echo {"x": "42"} and
\* the follow-up call, if the run got to make it, with "done"
EchoRunEnded ==
    /\ pc \in {"done", "raised"}
    /\ runs = 1
    /\ tools = {"echo"}
    /\ Len(outcomes) >= 1
    /\ outcomes[1].kind = "calls"
    /\ Len(Dispatched) = 1
    /\ Dispatched[1].name = "echo"
    /\ Dispatched[1].arguments = PayloadObject
    /\ Len(outcomes) = 2 => outcomes[2] = Outcome("says", <<"done">>)

\* the five messages of the echo scenario
EchoMessages ==
    <<[role |-> RoleSystem, content |-> SystemPrompt, name |-> None,
       tool_calls |-> <<>>, tool_call_id |-> None],
      [role |-> RoleUser, content |-> asked, name |-> None,
       tool_calls |-> <<>>, tool_call_id |-> None],
      [role |-> RoleAssistant, content |-> <<>>, name |-> None,
       tool_calls |-> Dispatched, tool_call_id |-> None],
      [role |-> RoleTool, content |-> <<"42">>, name |-> None,
       tool_calls |-> <<>>, tool_call_id |-> Dispatched[1].id],
      [role |-> RoleAssistant, content |-> <<"done">>, name |-> None,
       tool_calls |-> <<>>, tool_call_id |-> None]>>

\* C1 as stated: in the echo scenario run returns "done" and the memory holds
\* exactly system, user, assistant(tool_calls=[echo]), tool("42"), assistant("done");
\* stated for a short-term memory that has room for the five messages.
C1_AsStated ==
    (EchoRunEnded /\ capacity >= 5) =>
        /\ pc = "done"
        /\ returned = <<"done">>
        /\ shortTerm = EchoMessages

\* C2 as stated: dispatch repeats until a response without tool-call requests,
\* so the message run appends last and returns carries none, and every response
\* with tool-call requests that the model gave in the run was dispatched.
C2_AsStated ==
    pc = "done" =>
        /\ added[Len(added)].tool_calls = <<>>
        /\ \A k \in 1..Len(outcomes) : outcomes[k].kind = "calls" => k = 1

C4_AsStated == pc # "raised"

\* C5: a failing backend call (an exception of the call, or a model that is
\* neither openai nor claude) makes _call_model return the apology followed by
\* the error text; run appends that message to memory, after the user message
\* when it is the first call, and returns its content; the call adds or changes
\* no cache entry.
C5_BackendFailure ==
    [][(pc = "model" /\ Len(outcomes') = Len(outcomes) + 1
        /\ outcomes'[Len(outcomes')].kind \in {"fails", "unsupported"}) =>
          LET apology ==
                [role |-> RoleAssistant,
                 content |-> <<ApologyPrefix>> \o outcomes'[Len(outcomes')].text,
                 name |-> None, tool_calls |-> <<>>, tool_call_id |-> None]
          IN  /\ pc' = "done"
              /\ returned' = apology.content
              /\ added' = Append(added, apology)
              /\ callNo = 1 => added = <<[role |-> RoleUser, content |-> asked,
                                          name |-> None, tool_calls |-> <<>>,
                                          tool_call_id |-> None]>>
              /\ shortTerm'[Len(shortTerm')] = apology
              /\ \A k \in DOMAIN cache' : k \in DOMAIN cache /\ cache'[k] = cache[k]
      ]_vars

C5_Witness ==
    /\ pc = "done"
    /\ enableCache
    /\ outcomes[Len(outcomes)].kind = "fails"
    /\ returned = <<ApologyPrefix, "connection error">>

\* C6 as stated: a request whose payload cannot be decoded gets a tool-role
\* message tagged with its id, and the loop goes on: run does not raise.
C6_AsStated ==
    \A i \in 1..Len(Dispatched) :
        (JsonLoads(Dispatched[i].arguments).raises /\ idx >= i /\ pc # "dispatch") =>
            /\ pc # "raised"
            /\ Len(added) >= 2 + i
            /\ added[2 + i].role = RoleTool
            /\ added[2 + i].tool_call_id = Dispatched[i].id

\* the i-th dispatched request has a payload that json.loads decodes
Decodable(i) == ~JsonLoads(Dispatched[i].arguments).raises

\* the run ended with an exception while the loop stood at the i-th request
RaisedAt(i) == pc = "raised" /\ idx = i

RaisesOnInvocation(i) ==
    /\ Dispatched[i].name \in tools
    /\ Decodable(i)
    /\ \/ Dispatched[i].name = "boom"
       \/ Dispatched[i].arguments = PayloadList

ChatRunDone ==
    /\ pc = "done"
    /\ Len(outcomes) = 1
    /\ outcomes[1].kind = "says"

\* the messages of a first chat run
ChatMessages ==
    <<[role |-> RoleSystem, content |-> SystemPrompt, name |-> None,
       tool_calls |-> <<>>, tool_call_id |-> None],
      [role |-> RoleUser, content |-> asked, name |-> None,
       tool_calls |-> <<>>, tool_call_id |-> None],
      [role |-> RoleAssistant, content |-> outcomes[1].text, name |-> None,
       tool_calls |-> <<>>, tool_call_id |-> None]>>

\* C9 as stated: without cache and tools, a run the backend answers with text
\* c returns c and appends one user and one assistant message; after the first
\* run the memory is exactly [system, user(t), assistant(c)].
C9_AsStated ==
    ChatRunDone =>
        /\ returned = outcomes[1].text
        /\ added = <<ChatMessages[2], ChatMessages[3]>>
        /\ runs = 1 => shortTerm = ChatMessages

\* C9, amended: such a run returns c and appends exactly one user message and
\* then one assistant message; after the first run the memory holds, in order,
\* the last min(3, K) of [system, user(t), assistant(c)], K the short-term
\* capacity: all three exactly when K >= 3.
C9_ChatRun ==
    ChatRunDone =>
        /\ returned = outcomes[1].text
        /\ added = <<ChatMessages[2], ChatMessages[3]>>
        /\ runs = 1 =>
              /\ Len(shortTerm) = Min(3, capacity)
              /\ \A i \in 1..Len(shortTerm) :
                    shortTerm[i] = ChatMessages[3 - Len(shortTerm) + i]

C9_Witness ==
    /\ ChatRunDone
    /\ runs = 1
    /\ capacity >= 3
    /\ shortTerm = ChatMessages
    /\ returned = <<"hello">>

\* C10: after N adds to a short-term memory of capacity K, get_all is the last
\* min(N, K) of the added messages, in the order they were added.
C10_LastMinNK ==
    /\ Len(shortTerm) = Min(Len(added), capacity)
    /\ \A i \in 1..Len(shortTerm) :
          shortTerm[i] = added[Len(added) - Len(shortTerm) + i]

C10_Witness ==
    /\ capacity >= 2
    /\ Len(added) > capacity
    /\ shortTerm[1] # added[1]

\* C11: the short-term memory never holds more messages than its capacity,
\* whatever the Agent has been asked to do: construction, runs with and
\* without tool dispatch, clear_memory, new_conversation, load_conversation
\* and delete_conversation.
C11_LengthAtMostCapacity == Len(shortTerm) <= capacity

C11_Witness ==
    /\ pc = "load_conversation"
    /\ longTermEnabled
    /\ runs >= 1
    /\ Len(LogOf(ltmMessages, conversationId)) > capacity
    /\ Len(shortTerm) = capacity

\* the rows logged for the current conversation
CurrentLog == LogOf(ltmMessages, conversationId)

\* load_conversation(id) has just replayed the log of id
Reloaded ==
    /\ pc = "load_conversation"
    /\ longTermEnabled
    /\ conversationId # ""

SystemMessage ==
    [role |-> RoleSystem, content |-> SystemPrompt, name |-> None,
     tool_calls |-> <<>>, tool_call_id |-> None]

\* C13 as stated: after new_conversation the Agent has a new conversation id
\* and the short-term memory holds exactly the system prompt, with long-term
\* memory enabled or disabled.
C13_AsStated ==
    pc = "new_conversation" =>
        /\ conversationId = ConvId(minted)
        /\ shortTerm = <<SystemMessage>>

\* C14: clear_memory leaves exactly the system prompt in the short-term memory
\* and does not change the conversation id.
C14_ClearMemory ==
    [][pc' = "clear_memory" =>
          /\ shortTerm' = <<SystemMessage>>
          /\ conversationId' = conversationId
      ]_vars

C14_Witness ==
    /\ pc = "clear_memory"
    /\ runs >= 1
    /\ capacity >= 3
    /\ conversationId = ConvId(2)
    /\ shortTerm = <<SystemMessage>>

\* m is a tool-role message (as built by Message.tool, or as replayed from the log)
IsToolMessage(m) == m.role \in {RoleTool, "tool"}

\* m is an assistant message (as built, or as replayed from the log)
IsAssistantMessage(m) == m.role \in {RoleAssistant, "assistant"}

\* the position of the nearest assistant message before position i of the
\* history (0 when there is none)
NearestAssistant(history, i) ==
    LET before == {j \in 1..(i - 1) : IsAssistantMessage(history[j])}
    IN  IF before = {} THEN 0 ELSE CHOOSE j \in before : \A k \in before : k <= j

\* C15 as stated: in the history given to a model call, the tool_call_id of
\* every tool-role message is the id of a request carried by the nearest
\* assistant message before it.
C15_AsStated ==
    pc = "model" =>
        \A i \in 1..Len(shortTerm) :
            IsToolMessage(shortTerm[i]) =>
                /\ NearestAssistant(shortTerm, i) > 0
                /\ \E k \in 1..Len(shortTerm[NearestAssistant(shortTerm, i)].tool_calls) :
                      shortTerm[NearestAssistant(shortTerm, i)].tool_calls[k].id
                          = shortTerm[i].tool_call_id

\* C16 as stated: for every request R and response V that the Agent passes,
\* get(R) right after set(R, V) returns V (no time has passed in between); this
\* covers a set that replaces an earlier entry of R.
C16_AsStated ==
    [][(pc = "set" /\ pc' = "get" /\ asked' = asked) =>
          /\ returned'.found
          /\ returned'.response = cache[asked].response
      ]_vars

\* the entry of request k can be read back and its write time plus the expiry
\* period lies before time
Expired(entries, k, time) ==
    /\ k \in DOMAIN entries
    /\ entries[k].readable
    /\ time > entries[k].timestamp + ExpiryDays

\* C17: get of a request whose entry has expired returns not-found and removes
\* the entry; get removes no entry that has not expired and touches no entry of
\* another request; and an absent entry stays absent until the next set of its
\* request. (An entry is a file that can be read back: what set leaves behind
\* when json.dump raised has no write time to read.)
C17_ExpiredRemoved ==
    [][/\ pc' = "get" =>
            /\ Expired(cache, asked', now) =>
                  /\ ~returned'.found
                  /\ asked' \notin DOMAIN cache'
            /\ (asked' \in DOMAIN cache /\ ~Expired(cache, asked', now)) =>
                  /\ asked' \in DOMAIN cache'
                  /\ cache'[asked'] = cache[asked']
            /\ \A k \in DOMAIN cache \ {asked'} :
                  k \in DOMAIN cache' /\ cache'[k] = cache[k]
       /\ \A k \in DOMAIN cache' \ DOMAIN cache : pc' = "set" /\ asked' = k
      ]_vars

C17_Witness ==
    /\ pc = "get"
    /\ now > ExpiryDays
    /\ ~returned.found
    /\ asked \notin DOMAIN cache
    /\ \E k \in DOMAIN cache : cache[k].readable /\ cache[k].timestamp = 1

\* C18: to_dict followed by from_dict gives a Message with the same role,
\* content, tool_calls and tool_call_id, for every member of Role and for empty
\* and non-empty tool_calls.
C18_RoundTrip ==
    pc = "rebuilt" =>
        /\ returned.role = response.role
        /\ returned.content = response.content
        /\ returned.tool_calls = response.tool_calls
        /\ returned.tool_call_id = response.tool_call_id

C18_Witness ==
    /\ pc = "rebuilt"
    /\ response.role = RoleTool
    /\ Len(response.tool_calls) = 2
    /\ response.tool_call_id = CallId(1)
    /\ returned.tool_call_id = CallId(1)

\* C19 as stated: after set_conversation(id), here through load_conversation(id),
\* no message from before the call remains in the short-term memory: it holds
\* rows of the log of id and nothing else, with long-term memory enabled or not.
C19_AsStated ==
    pc = "load_conversation" =>
        /\ Len(shortTerm) <= Len(CurrentLog)
        /\ \A i \in 1..Len(shortTerm) :
              shortTerm[i].content
                  = CurrentLog[Len(CurrentLog) - Len(shortTerm) + i].content

\* C20: every memory.add of a run appends the message to the short-term memory
\* (dropping the oldest when it is full), appends its row to the log of the
\* current conversation exactly when long-term memory is enabled and a
\* conversation id is set, and leaves the log of every other conversation as it was.
C20_AddFrame ==
    [][(added' # added /\ added' # <<>>) =>
          LET m == added'[Len(added')]
              logged == longTermEnabled /\ conversationId \notin {None, ""}
          IN  /\ shortTerm' = IF Len(shortTerm) < capacity
                              THEN Append(shortTerm, m)
                              ELSE Append(Tail(shortTerm), m)
              /\ logged =>
                    /\ conversationId \in DOMAIN ltmMessages'
                    /\ ltmMessages'[conversationId] =
                          Append(CurrentLog, [role |-> RoleValue(m.role),
                                              content |-> m.content, name |-> m.name])
              /\ ~logged => ltmMessages' = ltmMessages
              /\ \A c \in DOMAIN ltmMessages' \ {conversationId} :
                    c \in DOMAIN ltmMessages /\ ltmMessages'[c] = ltmMessages[c]
              /\ \A c \in DOMAIN ltmMessages : c \in DOMAIN ltmMessages'
      ]_vars

C20_Witness ==
    /\ pc = "done"
    /\ longTermEnabled
    /\ conversationId = ConvId(2)
    /\ ConvId(1) \in DOMAIN ltmMessages
    /\ Len(ltmMessages[ConvId(2)]) = 1 + Len(added)

\* the step adds a message to the memory while the database is failing
FailedAdd ==
    /\ added' # added
    /\ added' # <<>>
    /\ longTermEnabled
    /\ conversationId \notin {None, ""}
    /\ ~storeOk

\* C21: an add during which the database fails does not raise, leaves the
\* message as the newest of the short-term memory and changes neither the log
\* nor the index; and the run still returns the text of the model's response.
C21_StoreFailure ==
    [][/\ FailedAdd =>
            /\ pc' # "raised"
            /\ shortTerm'[Len(shortTerm')] = added'[Len(added')]
            /\ ltmMessages' = ltmMessages
            /\ ltmConversations' = ltmConversations
       /\ (pc = "model" /\ pc' # "model") =>
            /\ pc' = "done"
            /\ returned' = response'.content
            /\ outcomes'[1].kind = "says" => returned' = outcomes'[1].text
      ]_vars

C21_Witness ==
    /\ pc = "done"
    /\ ~storeOk
    /\ runs = 1
    /\ outcomes[1].kind = "says"
    /\ returned = <<"hello">>
    /\ capacity >= 3
    /\ Len(shortTerm) = 3
    /\ Len(ltmMessages[conversationId]) = 2

\* the request of the model call at hand has an entry that can be read back
\* and whose write time plus the expiry period has not passed
LiveEntry ==
    LET request == RequestOf(modelId, tools, shortTerm)
    IN  /\ request \in DOMAIN cache
        /\ cache[request].readable
        /\ now <= cache[request].timestamp + ExpiryDays

\* the step is a _call_model that returns
ModelCallReturns ==
    /\ pc = "model"
    /\ Len(outcomes') = Len(outcomes) + 1

\* C22: with caching enabled, a model call is answered from the cache, without
\* a backend call and with the cached response as its message, exactly when
\* its full request has a live entry; an entry of a request with another
\* history does not answer it.
C22_HitIffLiveEntry ==
    [][(ModelCallReturns /\ enableCache) =>
          LET kind == outcomes'[Len(outcomes')].kind
          IN  /\ LiveEntry =>
                    /\ kind = "hit"
                    /\ ToDict(response') = cache[RequestOf(modelId, tools, shortTerm)].response
                    /\ response'.role = RoleAssistant
              /\ ~LiveEntry => kind # "hit"
      ]_vars

C22_Witness ==
    /\ pc = "done"
    /\ runs = 2
    /\ now > 0
    /\ outcomes = <<[kind |-> "hit", text |-> <<>>]>>
    /\ returned = <<"hello">>
    /\ Cardinality(DOMAIN cache) = 1

\* the step writes the entry of request k
Written(k) ==
    /\ k \in DOMAIN cache'
    /\ k \notin DOMAIN cache \/ cache'[k] # cache[k]

\* C23: an entry is written only by a model call that missed the cache and
\* whose backend call returned, and under the key of that call's request: a
\* hit, a failed backend call and every call of an Agent without caching write
\* nothing.
C23_WrittenOnlyOnFreshSuccess ==
    [][\A k \in DOMAIN cache' :
          Written(k) =>
              /\ enableCache
              /\ ModelCallReturns
              /\ outcomes'[Len(outcomes')].kind \in {"says", "calls"}
              /\ ~LiveEntry
              /\ k = RequestOf(modelId, tools, shortTerm)
      ]_vars

C23_Witness ==
    /\ pc = "done"
    /\ enableCache
    /\ runs = 2
    /\ now > 0
    /\ outcomes = <<[kind |-> "says", text |-> <<"done">>]>>
    /\ \E k \in DOMAIN cache :
          /\ cache[k].timestamp = now
          /\ cache[k].response.content = <<"done">>
          /\ Len(k.messages) = Min(4, capacity)

\* C24 as stated: a get that runs while other agents set the same key, or that
\* finds an entry cut short, returns not-found or the response one of the sets
\* wrote in full (or the entry held in full before), never a mix of two.
C24_AsStated ==
    procs[Reader].op = "returned" =>
        \/ ~returned.found
        \/ \E v \in RaceValues : returned.response = EntryResponse(v)

\* the conversation ids that have at least one logged message
Logged == {c \in DOMAIN ltmMessages : ltmMessages[c] # <<>>}

\* C25: whatever adds, deletes and clear_alls were called and wherever they
\* failed, the ids with an index row are exactly the ids with a logged
\* message; and an add creates the index row of its id exactly when it is the
\* first add to that id, every later add leaving the index as it is.
C25_IndexMatchesLog ==
    /\ [](ltmConversations = Logged)
    /\ [][(pc = "add_commit" /\ pc' = "idle" /\ ltmMessages' # ltmMessages) =>
             /\ Len(ltmMessages'[asked.conversation_id]) = 1 =>
                   /\ asked.conversation_id \notin ltmConversations
                   /\ ltmConversations' = ltmConversations \cup {asked.conversation_id}
             /\ Len(ltmMessages'[asked.conversation_id]) > 1 =>
                   ltmConversations' = ltmConversations
         ]_vars

C25_Witness ==
    /\ pc = "idle"
    /\ ltmConversations = {ConvId(2)}
    /\ Len(ltmMessages[ConvId(2)]) = 1
    /\ Len(outcomes) = 3
    /\ outcomes[1] = [kind |-> "committed", text |-> <<"add", ConvId(1)>>]
    /\ outcomes[2] = [kind |-> "committed", text |-> <<"delete", ConvId(1)>>]
    /\ outcomes[3] = [kind |-> "committed", text |-> <<"add", ConvId(2)>>]

\* C26: at every step of delete_conversation(id), failing ones included, the
\* committed tables either stay as they are, and the call if it ends returns
\* False, or lose the index row and all messages of id at once, the call
\* returning True; the rows of every other conversation stay.
C26_DeleteAtomic ==
    [][(asked.op = "delete" /\ pc # "idle") =>
          \/ /\ ltmMessages' = ltmMessages
             /\ ltmConversations' = ltmConversations
             /\ pc' = "idle" => returned' = FALSE
          \/ /\ pc' = "idle"
             /\ returned' = TRUE
             /\ ltmConversations' = ltmConversations \ {asked.conversation_id}
             /\ DOMAIN ltmMessages' = DOMAIN ltmMessages \ {asked.conversation_id}
             /\ \A c \in DOMAIN ltmMessages' : ltmMessages'[c] = ltmMessages[c]
      ]_vars

C26_Witness ==
    /\ pc = "idle"
    /\ returned = FALSE
    /\ Len(outcomes) = 3
    /\ outcomes[3] = [kind |-> "delete_conversations", text |-> <<"delete", ConvId(1)>>]
    /\ ConvId(1) \in ltmConversations
    /\ Len(ltmMessages[ConvId(1)]) = 1
    /\ ConvId(2) \in ltmConversations

\* the call ids of the requests a message carries
CallIdsOf(m) == {m.tool_calls[i].id : i \in 1..Len(m.tool_calls)}

\* the follow-up call of the run has returned a message with tool-call requests
FollowUpAsksAgain ==
    /\ pc = "done"
    /\ Len(outcomes) = 2
    /\ response.tool_calls # <<>>

\* C27: a run calls the model at most twice and dispatches one round of tool
\* calls at most; when the follow-up response itself carries tool-call
\* requests, no tool is invoked for them, the response is the last message
\* added to memory and its content is what run returns.
C27_OneDispatchRound ==
    /\ Len(outcomes) <= 2
    /\ callNo <= 2
    /\ pc = "dispatch" => Len(outcomes) = 1
    /\ FollowUpAsksAgain =>
          /\ \A i \in 1..Len(invoked) : invoked[i] \notin CallIdsOf(response)
          /\ \A i \in 1..Len(invoked) : invoked[i] \in CallIdsOf(added[2])
          /\ added[Len(added)] = response
          /\ shortTerm[Len(shortTerm)] = response
          /\ returned = response.content

C27_Witness ==
    /\ FollowUpAsksAgain
    /\ outcomes[2].kind = "calls"
    /\ Len(invoked) = 1
    /\ Len(added) = 4
    /\ returned = <<>>

\* C28: the system message is evicted like any other message: once K or more
\* messages have been added since it was last added (by the constructor,
\* clear_memory or new_conversation), the history a model call is given holds
\* no system message.
C28_SystemEvicted ==
    (pc = "model" /\ DictsBuilt /\ sinceSeed >= capacity) =>
        \A i \in 1..Len(shortTerm) : shortTerm[i].role # RoleSystem

C28_Witness ==
    /\ pc = "model"
    /\ DictsBuilt
    /\ capacity = 2
    /\ ops = 1
    /\ runs = 2
    /\ sinceSeed = 3
    /\ Len(shortTerm) = 2
    /\ shortTerm[1].role = RoleAssistant
    /\ shortTerm[2].role = RoleUser

\* the role of a short-term message as the log records it: the value of a
\* member of Role, or the str a replayed message carries
RoleText(role) == IF role \in Roles THEN RoleValue(role) ELSE role

\* C29: with long-term memory enabled, no storage failure and a conversation id
\* set, after any sequence of runs, clear_memory, new_conversation and
\* load_conversation the short-term messages are, in order and by role and
\* content, the newest rows of the log of the current conversation. (With the
\* empty id, which set_conversation and add take for no conversation, nothing
\* is logged or replayed.)
C29_ShortTermIsLogSuffix ==
    (conversationId \notin {None, ""}) =>
        /\ Len(shortTerm) <= Len(CurrentLog)
        /\ \A i \in 1..Len(shortTerm) :
              LET row == CurrentLog[Len(CurrentLog) - Len(shortTerm) + i]
              IN  /\ RoleText(shortTerm[i].role) = row.role
                  /\ shortTerm[i].content = row.content

C29_Witness ==
    /\ pc = "load_conversation"
    /\ capacity = 2
    /\ conversationId = ConvId(1)
    /\ Len(CurrentLog) = 5
    /\ Len(shortTerm) = 2
    /\ shortTerm[1].role = "tool"
    /\ shortTerm[2].role = "assistant"

\* the run that has just returned dispatched tool calls: it added an assistant
\* message with tool_calls and a tool message with a tool_call_id
DispatchRunDone ==
    /\ pc = "done"
    /\ Len(added) >= 4
    /\ added[2].tool_calls # <<>>
    /\ added[3].role = RoleTool
    /\ added[3].tool_call_id # None

\* C30: the log keeps neither tool_calls nor tool_call_id: when a run with tool
\* dispatch is followed by load_conversation of the same conversation, every
\* replayed message has an empty tool_calls list and no tool_call_id, the tool
\* rows included, and the short-term memory after the reload differs from the
\* one before it.
C30_ReloadLosesToolCalls ==
    [][(DispatchRunDone /\ pc' = "load_conversation" /\ conversationId' = conversationId
            /\ conversationId # "") =>
          /\ \E i \in 1..Len(CurrentLog) : CurrentLog[i].role = "tool"
          /\ \A i \in 1..Len(shortTerm') :
                /\ shortTerm'[i].tool_calls = <<>>
                /\ shortTerm'[i].tool_call_id = None
          /\ shortTerm' # shortTerm
      ]_vars

C30_Witness ==
    /\ pc = "load_conversation"
    /\ capacity = 3
    /\ conversationId = ConvId(1)
    /\ Len(CurrentLog) = 5
    /\ Len(shortTerm) = 3
    /\ shortTerm[1].role = "assistant"
    /\ shortTerm[1].content = <<>>
    /\ shortTerm[1].tool_calls = <<>>
    /\ shortTerm[2].role = "tool"
    /\ shortTerm[2].tool_call_id = None
    /\ shortTerm[3].role = "assistant"

====
